---------------------------- MODULE Spec2Model ----------------------------
(***************************************************************************)
(* Release-calendar pipeline of data_fetcher.py: normalize_time, the four  *)
(* domestic adapters of fetch_cn_releases with the sufficiency threshold,  *)
(* title de-duplication, fetch_global_releases and merge_calendars.        *)
(*                                                                         *)
(* Python values are modelled as follows.                                  *)
(*   - a str is a sequence of characters, each character a one-element     *)
(*     TLA+ string ("a", "-", ...); a character outside ASCII is named by  *)
(*     its code point ("U+4E2D");                                          *)
(*   - a value that may be an int, a str or None (a JSON field) is a       *)
(*     record [k, n, s] built by PyInt, PyStr, PyNone;                     *)
(*   - an instant is an integer number of seconds since the Unix epoch.    *)
(***************************************************************************)
EXTENDS Integers, Sequences, FiniteSets, TLC

VARIABLES
    pc,               \* position of main() in the calendar part of the job
    now,              \* the wall clock (time.time(), arrow.now()) of the run
    results,          \* fetch_cn_releases: the accumulated list `results`
    excepted,         \* history: the adapter that ran last entered its except handler
    invoked,          \* history: the domestic adapters run, in the order they ran
    unique_results,   \* fetch_cn_releases: unique_results
    cn_releases,      \* main: cn_releases
    games,            \* history: the catalog the global endpoint returned
    global_releases,  \* main: global_releases
    calendar,         \* main: calendar
    ntArg,            \* normalize_time: the argument of the last call
    ntRet             \* normalize_time: outcome of the last call

vars == <<pc, now, results, excepted, invoked, unique_results, cn_releases, games,
          global_releases, calendar, ntArg, ntRet>>

-----------------------------------------------------------------------------
(* Bounds of the model *)

MaxItems == 3
MaxEntries == 1
MaxGlobal == 2
MaxDedupe == 3
MaxMerge == 2

(* The instant the job starts: 2023-11-14 22:13:20 UTC. *)
Now0 == 1700000000

-----------------------------------------------------------------------------
(* Python values *)

PyInt(n) == [k |-> "int", n |-> n, s |-> <<>>]
PyStr(s) == [k |-> "str", n |-> 0, s |-> s]
PyNone == [k |-> "none", n |-> 0, s |-> <<>>]

Min(a, b) == IF a <= b THEN a ELSE b

Take(s, n) == SubSeq(s, 1, Min(n, Len(s)))

RECURSIVE SeqsUpTo(_, _)
SeqsUpTo(S, n) ==
    IF n = 0 THEN {<<>>}
    ELSE LET shorter == SeqsUpTo(S, n - 1)
         IN shorter \cup {Append(q, x) : q \in {p \in shorter : Len(p) = n - 1}, x \in S}

-----------------------------------------------------------------------------
(* Characters *)

DigitChars == <<"0", "1", "2", "3", "4", "5", "6", "7", "8", "9">>
UpperChars == <<"A", "B", "C", "D", "E", "F", "G", "H", "I", "J", "K", "L", "M",
                "N", "O", "P", "Q", "R", "S", "T", "U", "V", "W", "X", "Y", "Z">>
LowerChars == <<"a", "b", "c", "d", "e", "f", "g", "h", "i", "j", "k", "l", "m",
                "n", "o", "p", "q", "r", "s", "t", "u", "v", "w", "x", "y", "z">>

Range(s) == {s[i] : i \in 1..Len(s)}

DigitSet == Range(DigitChars)
UpperSet == Range(UpperChars)
LowerSet == Range(LowerChars)

DigitValue == [c \in DigitSet |-> (CHOOSE i \in 1..10 : DigitChars[i] = c) - 1]
Digit(n) == DigitChars[n + 1]

Pad2(n) == <<Digit((n \div 10) % 10), Digit(n % 10)>>
Pad4(n) == <<Digit((n \div 1000) % 10), Digit((n \div 100) % 10)>> \o Pad2(n % 100)

-----------------------------------------------------------------------------
(* The proleptic Gregorian calendar, as arrow (datetime) computes it *)

IsLeap(y) == (y % 4 = 0 /\ y % 100 # 0) \/ y % 400 = 0

DaysInMonth(y, m) ==
    IF m = 2 THEN (IF IsLeap(y) THEN 29 ELSE 28)
    ELSE IF m \in {4, 6, 9, 11} THEN 30 ELSE 31

(* Days since 1970-01-01 of a civil date. *)
DaysFromCivil(y, m, d) ==
    LET yy == IF m <= 2 THEN y - 1 ELSE y
        era == yy \div 400
        yoe == yy - era * 400
        mp == IF m > 2 THEN m - 3 ELSE m + 9
        doy == (153 * mp + 2) \div 5 + d - 1
        doe == yoe * 365 + yoe \div 4 - yoe \div 100 + doy
    IN era * 146097 + doe - 719468

(* The civil date <<y, m, d>> of a number of days since 1970-01-01. *)
CivilFromDays(days) ==
    LET z == days + 719468
        era == z \div 146097
        doe == z - era * 146097
        yoe == (doe - doe \div 1460 + doe \div 36524 - doe \div 146096) \div 365
        doy == doe - (365 * yoe + yoe \div 4 - yoe \div 100)
        mp == (5 * doy + 2) \div 153
        d == doy - (153 * mp + 2) \div 5 + 1
        m == IF mp < 10 THEN mp + 3 ELSE mp - 9
        y == yoe + era * 400 + (IF m <= 2 THEN 1 ELSE 0)
    IN <<y, m, d>>

Epoch(y, m, d, hh, mi, ss) == DaysFromCivil(y, m, d) * 86400 + hh * 3600 + mi * 60 + ss

(* Asia/Shanghai is UTC+8 with no daylight saving. *)
ShanghaiOffset == 8 * 3600

(* The wall-clock fields of instant t at a UTC offset of off seconds. *)
Fields(t, off) ==
    LET loc == t + off
        ymd == CivilFromDays(loc \div 86400)
        sod == loc % 86400
    IN [y |-> ymd[1], m |-> ymd[2], d |-> ymd[3],
        hh |-> sod \div 3600, mi |-> (sod % 3600) \div 60, ss |-> sod % 60]

DatePart(f) == Pad4(f.y) \o <<"-">> \o Pad2(f.m) \o <<"-">> \o Pad2(f.d)
TimePart(f) == Pad2(f.hh) \o <<":">> \o Pad2(f.mi) \o <<":">> \o Pad2(f.ss)

(* dt.to("Asia/Shanghai").format("YYYY-MM-DD HH:mm:ss") *)
FormatShanghai(t) ==
    LET f == Fields(t, ShanghaiOffset) IN DatePart(f) \o <<" ">> \o TimePart(f)

-----------------------------------------------------------------------------
(* arrow.get: the instant a value denotes, or an exception *)

ParseOk(t) == [ok |-> TRUE, t |-> t]
ParseError == [ok |-> FALSE, t |-> 0]

DigitsAt(s, at, n) == \A i \in at..(at + n - 1) : s[i] \in DigitSet

Num2(s, at) == 10 * DigitValue[s[at]] + DigitValue[s[at + 1]]
Num4(s, at) == 100 * Num2(s, at) + Num2(s, at + 2)

DateShape(s) ==
    /\ Len(s) >= 10
    /\ DigitsAt(s, 1, 4) /\ s[5] = "-"
    /\ DigitsAt(s, 6, 2) /\ s[8] = "-"
    /\ DigitsAt(s, 9, 2)

TimeShape(s, at) ==
    /\ Len(s) >= at + 7
    /\ DigitsAt(s, at, 2) /\ s[at + 2] = ":"
    /\ DigitsAt(s, at + 3, 2) /\ s[at + 5] = ":"
    /\ DigitsAt(s, at + 6, 2)

ZoneShape(s, at) ==
    /\ Len(s) = at + 5
    /\ s[at] \in {"+", "-"}
    /\ DigitsAt(s, at + 1, 2) /\ s[at + 3] = ":"
    /\ DigitsAt(s, at + 4, 2)

DateValid(s) ==
    LET y == Num4(s, 1)
        m == Num2(s, 6)
        d == Num2(s, 9)
    IN y >= 1 /\ m >= 1 /\ m <= 12 /\ d >= 1 /\ d <= DaysInMonth(y, m)

TimeValid(s, at) == Num2(s, at) <= 23 /\ Num2(s, at + 3) <= 59 /\ Num2(s, at + 6) <= 59

DateDays(s) == DaysFromCivil(Num4(s, 1), Num2(s, 6), Num2(s, 9))

TimeSecs(s, at) == Num2(s, at) * 3600 + Num2(s, at + 3) * 60 + Num2(s, at + 6)

ZoneSecs(s, at) ==
    (IF s[at] = "-" THEN -1 ELSE 1) * (Num2(s, at + 1) * 3600 + Num2(s, at + 4) * 60)

(* arrow.get(str): ISO 8601 "YYYY-MM-DD", "YYYY-MM-DD[T ]HH:mm:ss", and the latter
   followed by "Z" or "+HH:MM" / "-HH:MM"; a string without a zone is UTC. *)
ParseString(s) ==
    IF ~DateShape(s) THEN ParseError
    ELSE IF ~DateValid(s) THEN ParseError
    ELSE IF Len(s) = 10 THEN ParseOk(DateDays(s) * 86400)
    ELSE IF ~(s[11] \in {"T", " "} /\ TimeShape(s, 12)) THEN ParseError
    ELSE IF ~TimeValid(s, 12) THEN ParseError
    ELSE LET utc == DateDays(s) * 86400 + TimeSecs(s, 12) IN
         IF Len(s) = 19 THEN ParseOk(utc)
         ELSE IF Len(s) = 20 /\ s[20] = "Z" THEN ParseOk(utc)
         ELSE IF ZoneShape(s, 20) THEN ParseOk(utc - ZoneSecs(s, 20))
         ELSE ParseError

(* arrow.get(value): an int is a Unix timestamp, None is a TypeError. *)
ArrowGet(v) ==
    IF v.k = "int" THEN ParseOk(v.n)
    ELSE IF v.k = "str" THEN ParseString(v.s)
    ELSE ParseError

-----------------------------------------------------------------------------
(* normalize_time *)

Returned(s) == [exc |-> FALSE, s |-> s]
Raised == [exc |-> TRUE, s |-> <<>>]

(* The body of the try block: arrow.get, then to(...).format(...). *)
NormalizeTimeTry(v) ==
    LET dt == ArrowGet(v) IN IF dt.ok THEN Returned(FormatShanghai(dt.t)) ELSE Raised

(* Mutation: the except handler is missing, the parse error propagates. *)
NormalizeTimeNoHandler(v, clock) == NormalizeTimeTry(v)

(* Mutation: the value is returned as it came when it is a str. *)
NormalizeTimeRaw(v, clock) ==
    IF v.k = "str" THEN Returned(v.s) ELSE NormalizeTimeTry(v)

normalize_time(v, clock) ==
    LET try == NormalizeTimeTry(v)
    IN IF try.exc THEN Returned(FormatShanghai(clock)) ELSE try

-----------------------------------------------------------------------------
(* Title normalisation and de-duplication (fetch_cn_releases, the tail) *)

(* Characters outside ASCII of the model's alphabet: two CJK ideographs of the
   range U+4E00..U+9FA5 and one fullwidth punctuation mark. *)
CJKChars == {"U+4E2D", "U+6587"}

(* \w of a Python 3 str pattern: Unicode letters and digits, and the underscore. *)
IsWordChar(c) ==
    c \in DigitSet \cup UpperSet \cup LowerSet \cup {"_"} \cup CJKChars

(* A character the pattern [^\w<U+4E00>-<U+9FA5>] does not match, so re.sub keeps it. *)
KeptByPattern(c) == IsWordChar(c) \/ c \in CJKChars

(* str.lower() of one character. *)
LowerOf == [c \in UpperSet |-> LowerChars[CHOOSE i \in 1..Len(UpperChars) : UpperChars[i] = c]]
Lower(c) == IF c \in UpperSet THEN LowerOf[c] ELSE c

RECURSIVE SubAndLower(_)
SubAndLower(s) ==
    IF s = <<>> THEN <<>>
    ELSE (IF KeptByPattern(Head(s)) THEN <<Lower(Head(s))>> ELSE <<>>) \o SubAndLower(Tail(s))

(* clean_title of a record whose title is a str. *)
CleanTitle(title) == SubAndLower(title.s)

Completed(list) == [exc |-> FALSE, list |-> list]
Aborted(list) == [exc |-> TRUE, list |-> list]

(* The de-duplication loop; re.sub raises TypeError on a title that is no str. *)
RECURSIVE DedupeLoop(_, _, _)
DedupeLoop(rest, seen_titles, kept) ==
    IF rest = <<>> THEN Completed(kept)
    ELSE LET r == Head(rest) IN
         IF r.title.k # "str" THEN Aborted(kept)
         ELSE IF CleanTitle(r.title) \notin seen_titles
              THEN DedupeLoop(Tail(rest), seen_titles \cup {CleanTitle(r.title)},
                              Append(kept, r))
              ELSE DedupeLoop(Tail(rest), seen_titles, kept)

(* Mutation: a later record with a seen title replaces the one kept. *)
RECURSIVE DedupeKeepLast(_)
DedupeKeepLast(list) ==
    IF list = <<>> THEN Completed(<<>>)
    ELSE LET r == Head(list)
             rest == DedupeKeepLast(Tail(list))
         IN IF r.title.k # "str" \/ rest.exc THEN Aborted(<<>>)
            ELSE IF \E i \in 1..Len(Tail(list)) :
                        /\ Tail(list)[i].title.k = "str"
                        /\ CleanTitle(Tail(list)[i].title) = CleanTitle(r.title)
                 THEN rest
                 ELSE Completed(<<r>> \o rest.list)

Dedupe(list) == DedupeLoop(list, {}, <<>>)

-----------------------------------------------------------------------------
(* merge_calendars *)

(* Code-point order of the characters of the model's alphabet (ASCII order). *)
CodeTable == <<" ", "!", "-", ".">> \o DigitChars \o <<":">> \o UpperChars
                 \o <<"_">> \o LowerChars \o <<"U+4E2D", "U+6587", "U+FF01">>

CodeOf == [c \in Range(CodeTable) |-> CHOOSE i \in 1..Len(CodeTable) : CodeTable[i] = c]
Code(c) == CodeOf[c]

(* The first index from i at which a and b differ, or one of them ends. *)
RECURSIVE FirstDifference(_, _, _)
FirstDifference(a, b, i) ==
    IF i > Len(a) \/ i > Len(b) \/ a[i] # b[i] THEN i ELSE FirstDifference(a, b, i + 1)

(* a < b for two str, as Python compares them: by the code points at the first
   difference, a proper prefix being smaller. *)
StrLess(a, b) ==
    IF a = b THEN FALSE
    ELSE LET i == FirstDifference(a, b, 1) IN
         IF i > Len(a) THEN TRUE
         ELSE IF i > Len(b) THEN FALSE
         ELSE Code(a[i]) < Code(b[i])

(* Mutation: an element goes before the elements of equal key (not stable). *)
InsertBeforeEquals(sorted, r) ==
    LET k == Cardinality({i \in 1..Len(sorted) :
                             StrLess(r.release_date, sorted[i].release_date)})
    IN SubSeq(sorted, 1, k) \o <<r>> \o SubSeq(sorted, k + 1, Len(sorted))

(* list.sort(key=release_date, reverse=True) is stable: an element goes after
   every element already placed whose key is greater or equal. *)
InsertDescending(sorted, r) ==
    LET k == Cardinality({i \in 1..Len(sorted) :
                             ~StrLess(sorted[i].release_date, r.release_date)})
    IN SubSeq(sorted, 1, k) \o <<r>> \o SubSeq(sorted, k + 1, Len(sorted))

RECURSIVE SortDescending(_)
SortDescending(list) ==
    IF list = <<>> THEN <<>>
    ELSE InsertDescending(SortDescending(SubSeq(list, 1, Len(list) - 1)), list[Len(list)])

merge_calendars(cn_data, global_data) == SortDescending(cn_data \o global_data)

-----------------------------------------------------------------------------
(* Program constants *)

RetentionDays == 30
Threshold == 5
GlobalLimit == 30
RowLimit == 20

RetentionSeconds == RetentionDays * 86400

(* The module imports requests, json, time, os, re, feedparser, arrow and datetime;
   nothing binds the name BeautifulSoup, so evaluating it raises NameError. *)
BeautifulSoupBound == FALSE

(* A release record. adapter (0: global, 1..4: the domestic adapters in order) and
   ts (the source timestamp) are history fields the dictionaries do not hold. *)
Rec(id, title, region, release_date, source, adapter, ts) ==
    [id |-> id, title |-> title, region |-> region, release_date |-> release_date,
     source |-> source, adapter |-> adapter, ts |-> ts]

-----------------------------------------------------------------------------
(* Adapters 1 and 2: the two TapTap sources *)

(* Mutation: no age filter. *)
TapFreshAlways(ts, clock) == TRUE

(* not (ts < time.time() - 30 * 86400) *)
TapFresh(ts, clock) == ~(ts < clock - RetentionSeconds)

(* The loop over data["data"]["list"]; an exception leaves it with what was appended. *)
RECURSIVE TapLoop(_, _, _, _)
TapLoop(items, acc, clock, a) ==
    IF items = <<>> THEN Completed(acc)
    ELSE LET item == Head(items)
             ts == IF item.start # 0 THEN item.start ELSE item.upd
         IN IF ~item.has_app THEN TapLoop(Tail(items), acc, clock, a)
            ELSE IF ~TapFresh(ts, clock) THEN TapLoop(Tail(items), acc, clock, a)
            ELSE IF item.icon_null THEN Aborted(acc)
            ELSE TapLoop(Tail(items),
                         Append(acc, Rec(<<"cn_tap_", item.id>>, item.title, "CN",
                                         normalize_time(PyInt(ts), clock).s, "TapTap", a, ts)),
                         clock, a)

(* One pass of `for src in sources`, with its try / except. *)
TapSource(resp, acc, clock, a) ==
    IF resp.kind \in {"neterr", "badjson"} THEN Aborted(acc)
    ELSE IF resp.kind \in {"status", "nosuccess"} THEN Completed(acc)
    ELSE TapLoop(resp.list, acc, clock, a)

-----------------------------------------------------------------------------
(* Adapter 3: the 3733 page *)

(* hash(title): some integer, equal for equal titles. *)
Hash(title) == Len(title)

(* full_time of a row. *)
KaifuTime(time_str, clock) ==
    LET f == Fields(clock, ShanghaiOffset) IN
    IF ":" \in Range(time_str) /\ "-" \notin Range(time_str)
    THEN DatePart(f) \o <<" ">> \o time_str \o <<":", "0", "0">>
    ELSE IF "-" \in Range(time_str)
    THEN (IF Len(time_str) <= 5
          THEN Pad4(f.y) \o <<"-">> \o time_str \o <<" ", "1", "0", ":", "0", "0", ":", "0", "0">>
          ELSE time_str \o <<" ", "1", "0", ":", "0", "0", ":", "0", "0">>)
    ELSE FormatShanghai(clock)

(* The loop over rows[:20]; a row that raises is skipped. *)
RECURSIVE KaifuLoop(_, _, _)
KaifuLoop(rows, acc, clock) ==
    IF rows = <<>> THEN acc
    ELSE LET row == Head(rows) IN
         IF ~row.has_name \/ row.img_no_src THEN KaifuLoop(Tail(rows), acc, clock)
         ELSE KaifuLoop(Tail(rows),
                        Append(acc, Rec(<<"cn_3733_", Hash(row.title)>>, PyStr(row.title), "CN",
                                        KaifuTime(row.time_str, clock), "3733", 3, clock)),
                        clock)

KaifuSource(resp, acc, clock) ==
    IF resp.kind = "neterr" THEN Aborted(acc)
    ELSE IF resp.kind = "status" THEN Completed(acc)
    ELSE IF ~BeautifulSoupBound THEN Aborted(acc)
    ELSE Completed(KaifuLoop(Take(resp.rows, RowLimit), acc, clock))

-----------------------------------------------------------------------------
(* Adapter 4: the App Store feed *)

(* arrow.get(release_date) > arrow.now().shift(days=-30) *)
AppStoreFresh(t, clock) == t > clock - RetentionSeconds

RECURSIVE AppStoreLoop(_, _, _)
AppStoreLoop(entries, acc, clock) ==
    IF entries = <<>> THEN Completed(acc)
    ELSE LET entry == Head(entries)
             dt == ArrowGet(entry.rel)
         IN IF ~entry.game THEN AppStoreLoop(Tail(entries), acc, clock)
            ELSE IF ~dt.ok THEN Aborted(acc)
            ELSE IF ~AppStoreFresh(dt.t, clock) THEN AppStoreLoop(Tail(entries), acc, clock)
            ELSE IF ~entry.has_image THEN Aborted(acc)
            ELSE AppStoreLoop(Tail(entries),
                              Append(acc, Rec(<<"", entry.id>>, entry.title, "CN",
                                              normalize_time(entry.rel, clock).s,
                                              "AppStore", 4, dt.t)),
                              clock)

AppStoreSource(resp, acc, clock) ==
    IF resp.kind \in {"neterr", "badjson"} THEN Aborted(acc)
    ELSE IF resp.kind = "status" THEN Completed(acc)
    ELSE AppStoreLoop(resp.list, acc, clock)

(* Mutation: the fallback is decided on the number of distinct titles. *)
FallbackDueDistinct(list) ==
    Cardinality({IF list[i].title.k = "str" THEN CleanTitle(list[i].title) ELSE <<>> :
                    i \in 1..Len(list)}) < Threshold

(* if len(results) < 5 *)
FallbackDue(list) == Len(list) < Threshold

-----------------------------------------------------------------------------
(* fetch_global_releases *)

DefaultReleaseDate == <<"2", "0", "2", "4", "-", "0", "1", "-", "0", "1">>

RECURSIVE GlobalLoop(_, _, _)
GlobalLoop(list, acc, clock) ==
    IF list = <<>> THEN acc
    ELSE LET g == Head(list)
             rel == IF g.has_rel THEN g.rel ELSE PyStr(DefaultReleaseDate)
         IN GlobalLoop(Tail(list),
                       Append(acc, Rec(<<"global_", g.id>>, g.title, "Global",
                                       normalize_time(rel, clock).s, "FreeToGame", 0,
                                       ArrowGet(rel).t)),
                       clock)

fetch_global_releases(resp, clock) ==
    IF resp.kind = "ok" THEN GlobalLoop(Take(resp.list, GlobalLimit), <<>>, clock)
    ELSE <<>>

-----------------------------------------------------------------------------
(* What the sources may answer *)

Fresh1 == Now0 - 86400
Fresh2 == Now0 - 2 * 86400 - 3600
Edge == Now0 - RetentionSeconds
Old == Edge - 1

TitleAb == <<"A", "b">>
TitleASpaceB == <<"a", " ", "b">>
TitleC == <<"C">>
TitleE == <<"E">>

TapItem(has_app, id, title, icon_null, start, upd) ==
    [has_app |-> has_app, id |-> id, title |-> title, icon_null |-> icon_null,
     start |-> start, upd |-> upd]

(* Items of a TapTap list: with a start time; with only an update time, exactly 30
   days old; without a title; too old by its start time; without any time; without
   "app"; and with a null "icon" (AttributeError while the record is built). *)
TapItems ==
    { TapItem(TRUE, 1, PyStr(TitleAb), FALSE, Fresh1, 0),
      TapItem(TRUE, 2, PyStr(TitleASpaceB), FALSE, 0, Edge),
      TapItem(TRUE, 3, PyNone, FALSE, Fresh2, 0),
      TapItem(TRUE, 4, PyStr(TitleE), FALSE, Old, Fresh1),
      TapItem(TRUE, 5, PyStr(TitleE), FALSE, 0, 0),
      TapItem(FALSE, 6, PyStr(TitleE), FALSE, Fresh1, 0),
      TapItem(TRUE, 7, PyStr(TitleE), TRUE, Fresh1, 0) }

Answer(kind, list) == [kind |-> kind, list |-> list]

TapResponses ==
    {Answer(k, <<>>) : k \in {"neterr", "status", "badjson", "nosuccess"}}
        \cup {Answer("ok", l) : l \in SeqsUpTo(TapItems, MaxItems)}

KaifuRow(has_name, title, time_str, img_no_src) ==
    [has_name |-> has_name, title |-> title, time_str |-> time_str, img_no_src |-> img_no_src]

(* A page whose rows carry "HH:mm", "MM-DD", a longer date and time, an image
   without src, and no name. *)
KaifuPage ==
    << KaifuRow(TRUE, TitleAb, <<"1", "0", ":", "0", "0">>, FALSE),
       KaifuRow(TRUE, TitleC, <<"0", "2", "-", "1", "8">>, FALSE),
       KaifuRow(TRUE, TitleE, <<"1", "1", "-", "1", "2", " ", "1", "0", ":", "0", "0">>, FALSE),
       KaifuRow(TRUE, TitleE, <<>>, TRUE),
       KaifuRow(FALSE, <<>>, <<>>, FALSE) >>

KaifuResponses ==
    {[kind |-> k, rows |-> <<>>] : k \in {"neterr", "status"}}
        \cup {[kind |-> "ok", rows |-> l] : l \in {<<>>, KaifuPage}}

(* An ISO 8601 string of instant t with the zone -07:00 (the feed's im:releaseDate). *)
IsoPacific(t) ==
    LET f == Fields(t, 0 - 7 * 3600)
    IN DatePart(f) \o <<"T">> \o TimePart(f) \o <<"-", "0", "7", ":", "0", "0">>

(* An ISO 8601 date, the day of instant t in UTC (the catalog's release_date). *)
IsoDate(t) == DatePart(Fields(t, 0))

StoreEntry(game, id, title, has_image, rel) ==
    [game |-> game, id |-> id, title |-> title, has_image |-> has_image, rel |-> rel]

StoreEntries ==
    { StoreEntry(TRUE, 11, PyStr(TitleAb), TRUE, PyStr(IsoPacific(Fresh1))),
      StoreEntry(TRUE, 12, PyStr(TitleC), TRUE, PyStr(IsoPacific(Fresh2))),
      StoreEntry(FALSE, 13, PyStr(TitleE), TRUE, PyStr(IsoPacific(Fresh1))),
      StoreEntry(TRUE, 14, PyStr(TitleE), TRUE, PyStr(IsoPacific(Edge))),
      StoreEntry(TRUE, 15, PyStr(TitleE), TRUE, PyStr(IsoPacific(Old))),
      StoreEntry(TRUE, 16, PyStr(TitleE), TRUE, PyNone),
      StoreEntry(TRUE, 17, PyStr(TitleE), FALSE, PyStr(IsoPacific(Fresh1))),
      StoreEntry(TRUE, 18, PyNone, TRUE, PyStr(IsoPacific(Fresh1))) }

StoreResponses ==
    {Answer(k, <<>>) : k \in {"neterr", "status", "badjson"}}
        \cup {Answer("ok", l) : l \in SeqsUpTo(StoreEntries, MaxEntries)}

CatalogGame(id, title, has_rel, rel) ==
    [id |-> id, title |-> title, has_rel |-> has_rel, rel |-> rel]

GameRecent == CatalogGame(21, PyStr(TitleAb), TRUE, PyStr(IsoDate(Fresh2)))
GameAncient == CatalogGame(22, PyStr(TitleASpaceB), TRUE,
                           PyStr(<<"2", "0", "2", "0", "-", "0", "5", "-", "0", "5">>))
GameNoDate == CatalogGame(23, PyStr(TitleC), FALSE, PyNone)
GameBadDate == CatalogGame(24, PyStr(TitleE), TRUE, PyStr(<<"T", "B", "A">>))

CatalogGames == {GameRecent, GameAncient, GameNoDate, GameBadDate}

(* A catalog one entry longer than the adapter takes. *)
LongCatalog ==
    [i \in 1..(GlobalLimit + 1) |-> IF i <= GlobalLimit THEN GameAncient ELSE GameRecent]

GlobalResponses ==
    {Answer(k, <<>>) : k \in {"neterr", "status", "badjson"}}
        \cup {Answer("ok", l) : l \in SeqsUpTo(CatalogGames, MaxGlobal) \cup {LongCatalog}}

-----------------------------------------------------------------------------
(* main: cn_releases = fetch_cn_releases(); global_releases =
   fetch_global_releases(); calendar = merge_calendars(...) *)

Init ==
    /\ pc = "tap_test"
    /\ now = Now0
    /\ results = <<>>
    /\ excepted = FALSE
    /\ invoked = <<>>
    /\ unique_results = <<>>
    /\ cn_releases = <<>>
    /\ games = <<>>
    /\ global_releases = <<>>
    /\ calendar = <<>>
    /\ ntArg = PyNone
    /\ ntRet = Returned(<<>>)

Accumulate(a, out, next) ==
    /\ results' = out.list
    /\ excepted' = out.exc
    /\ invoked' = Append(invoked, a)
    /\ pc' = next
    /\ UNCHANGED <<now, unique_results, cn_releases, games, global_releases, calendar,
                   ntArg, ntRet>>

(* Adapter 1: the test-event list. *)
Adapter1 ==
    /\ pc = "tap_test"
    /\ \E resp \in TapResponses : Accumulate(1, TapSource(resp, results, now, 1), "tap_new")

(* Adapter 2: the hot-new-game list. *)
Adapter2 ==
    /\ pc = "tap_new"
    /\ \E resp \in TapResponses : Accumulate(2, TapSource(resp, results, now, 2), "kaifu")

(* Adapter 3: the classifieds page. *)
Adapter3 ==
    /\ pc = "kaifu"
    /\ \E resp \in KaifuResponses : Accumulate(3, KaifuSource(resp, results, now), "appstore")

(* Adapter 4: the store-listing fallback, when due. *)
Adapter4 ==
    /\ pc = "appstore"
    /\ FallbackDue(results)
    /\ \E resp \in StoreResponses : Accumulate(4, AppStoreSource(resp, results, now), "dedupe")

Adapter4Skipped ==
    /\ pc = "appstore"
    /\ ~FallbackDue(results)
    /\ pc' = "dedupe"
    /\ excepted' = FALSE
    /\ UNCHANGED <<now, results, invoked, unique_results, cn_releases, games,
                   global_releases, calendar, ntArg, ntRet>>

(* The de-duplication loop; an exception leaves fetch_cn_releases and main, which
   has no handler. *)
Deduplicate ==
    /\ pc = "dedupe"
    /\ pc' = IF Dedupe(results).exc THEN "raised" ELSE "return"
    /\ unique_results' = Dedupe(results).list
    /\ UNCHANGED <<now, results, excepted, invoked, cn_releases, games, global_releases,
                   calendar, ntArg, ntRet>>

(* return unique_results: the locals of fetch_cn_releases are gone. *)
Return ==
    /\ pc = "return"
    /\ cn_releases' = unique_results
    /\ results' = <<>>
    /\ unique_results' = <<>>
    /\ excepted' = FALSE
    /\ invoked' = <<>>
    /\ pc' = "global"
    /\ UNCHANGED <<now, games, global_releases, calendar, ntArg, ntRet>>

FetchGlobal ==
    /\ pc = "global"
    /\ \E resp \in GlobalResponses :
          /\ games' = resp.list
          /\ global_releases' = fetch_global_releases(resp, now)
    /\ pc' = "merge"
    /\ UNCHANGED <<now, results, excepted, invoked, unique_results, cn_releases, calendar,
                   ntArg, ntRet>>

Merge ==
    /\ pc = "merge"
    /\ calendar' = merge_calendars(cn_releases, global_releases)
    /\ pc' = "done"
    /\ UNCHANGED <<now, results, excepted, invoked, unique_results, cn_releases, games,
                   global_releases, ntArg, ntRet>>

Next ==
    \/ Adapter1
    \/ Adapter2
    \/ Adapter3
    \/ Adapter4
    \/ Adapter4Skipped
    \/ Deduplicate
    \/ Return
    \/ FetchGlobal
    \/ Merge

Spec == Init /\ [][Next]_vars

-----------------------------------------------------------------------------
(* normalize_time on its own *)

IsoUtc(t) == DatePart(Fields(t, 0)) \o <<"T">> \o TimePart(Fields(t, 0)) \o <<"Z">>

NormInstants ==
    {Epoch(1970, 1, 1, 0, 0, 0), Epoch(2000, 2, 29, 15, 59, 59), Epoch(2023, 12, 31, 15, 59, 59),
     Epoch(2024, 2, 29, 15, 59, 59), Now0, Edge}

NormGarbage ==
    { <<>>,
      <<"T", "B", "A">>,
      <<"2", "0", "2", "3", "-", "0", "2", "-", "3", "0">>,
      <<"2", "0", "2", "3", "-", "1", "3", "-", "0", "1">>,
      <<"1", "0", ":", "0", "0">>,
      <<"2", "0", "2", "3", "-", "1", "1", "-", "1", "4", "T", "2", "5", ":", "0", "0", ":", "0", "0">> }

NormInputs ==
    {PyInt(t + d) : t \in NormInstants, d \in {0, 1, 3600}}
        \cup {PyStr(IsoDate(t)) : t \in NormInstants}
        \cup {PyStr(IsoUtc(t + 1)) : t \in NormInstants}
        \cup {PyStr(IsoPacific(t + 1)) : t \in NormInstants}
        \cup {PyStr(FormatShanghai(t)) : t \in NormInstants}
        \cup {PyStr(s) : s \in NormGarbage}
        \cup {PyNone}

NormClocks == {Now0, Epoch(2024, 2, 29, 15, 59, 59), Epoch(2023, 12, 31, 16, 0, 0)}

InitNormalize ==
    /\ pc = "normalize"
    /\ now \in NormClocks
    /\ results = <<>>
    /\ excepted = FALSE
    /\ invoked = <<>>
    /\ unique_results = <<>>
    /\ cn_releases = <<>>
    /\ games = <<>>
    /\ global_releases = <<>>
    /\ calendar = <<>>
    /\ ntArg = PyNone
    /\ ntRet = Returned(<<>>)

NormalizeCall ==
    /\ pc \in {"normalize", "normalized"}
    /\ \E v \in NormInputs :
          /\ ntArg' = v
          /\ ntRet' = normalize_time(v, now)
    /\ pc' = "normalized"
    /\ UNCHANGED <<now, results, excepted, invoked, unique_results, cn_releases, games,
                   global_releases, calendar>>

SpecNormalize == InitNormalize /\ [][NormalizeCall]_vars

-----------------------------------------------------------------------------
(* The de-duplication loop on its own *)

DedupeTitles ==
    { <<"G", "a", "m", "e", ":", " ", "A", "l", "p", "h", "a", "!">>,
      <<"g", "a", "m", "e", " ", "a", "l", "p", "h", "a">>,
      <<"G", "a", "m", "e", " ", "A">>,
      <<"G", "a", "m", "e", " ", "B">>,
      <<"a", "_", "b">>,
      <<"a", "b">>,
      <<"U+4E2D", "A">>,
      <<"U+4E2D", "a", "U+FF01">> }

DedupeInputs ==
    {[i \in 1..Len(t) |-> Rec(<<"cn_tap_", i>>, PyStr(t[i]), "CN", FormatShanghai(Fresh1),
                              "TapTap", 1, Fresh1)] : t \in SeqsUpTo(DedupeTitles, MaxDedupe)}

InitDedupe ==
    /\ pc = "dedupe"
    /\ now = Now0
    /\ results \in DedupeInputs
    /\ excepted = FALSE
    /\ invoked = <<>>
    /\ unique_results = <<>>
    /\ cn_releases = <<>>
    /\ games = <<>>
    /\ global_releases = <<>>
    /\ calendar = <<>>
    /\ ntArg = PyNone
    /\ ntRet = Returned(<<>>)

SpecDedupe == InitDedupe /\ [][Deduplicate]_vars

-----------------------------------------------------------------------------
(* merge_calendars on its own *)

MergeDates == {FormatShanghai(Fresh1), FormatShanghai(Fresh2), FormatShanghai(Edge)}

MergeLists(region, source) ==
    {[i \in 1..Len(d) |-> Rec(<<region, i>>, PyStr(TitleAb), region, d[i], source, 0, 0)] :
        d \in SeqsUpTo(MergeDates, MaxMerge)}

InitMerge ==
    /\ pc = "merge"
    /\ now = Now0
    /\ results = <<>>
    /\ excepted = FALSE
    /\ invoked = <<>>
    /\ unique_results = <<>>
    /\ cn_releases \in MergeLists("CN", "TapTap")
    /\ games = <<>>
    /\ global_releases \in MergeLists("Global", "FreeToGame")
    /\ calendar = <<>>
    /\ ntArg = PyNone
    /\ ntRet = Returned(<<>>)

SpecMerge == InitMerge /\ [][Merge]_vars

-----------------------------------------------------------------------------
(* Vocabulary of the claims *)

Indices(list) == 1..Len(list)

(* A string of the form YYYY-MM-DD HH:mm:ss naming a date and a time that exist. *)
IsCanonical(s) ==
    /\ Len(s) = 19
    /\ DateShape(s) /\ s[11] = " " /\ TimeShape(s, 12)
    /\ DateValid(s) /\ TimeValid(s, 12)

(* The instant a canonical string names, read as UTC+8 wall-clock time. *)
CanonicalInstant(s) == DateDays(s) * 86400 + TimeSecs(s, 12) - 8 * 3600

(* The normalized title of the specification: every character that is neither
   alphanumeric nor a CJK ideograph removed, then lowercased. *)
RECURSIVE SpecNormalized(_)
SpecNormalized(s) ==
    IF s = <<>> THEN <<>>
    ELSE (IF Head(s) \in DigitSet \cup UpperSet \cup LowerSet \cup CJKChars
          THEN <<Lower(Head(s))>> ELSE <<>>) \o SpecNormalized(Tail(s))

(* The records of list produced by the adapters of the set A. *)
From(list, A) == {i \in Indices(list) : list[i].adapter \in A}

(* The indices of list whose record is the first with its normalized title. *)
FirstOfTitle(list) ==
    {i \in Indices(list) :
        \A j \in 1..(i - 1) : SpecNormalized(list[j].title.s) # SpecNormalized(list[i].title.s)}

(* sub is list restricted to the indices of K, in order. *)
IsRestriction(sub, list, K) ==
    /\ Len(sub) = Cardinality(K)
    /\ \A i \in K : sub[Cardinality({k \in K : k <= i})] = list[i]

Occurrences(list, r) == Cardinality({i \in Indices(list) : list[i] = r})

EveryRecord ==
    Range(results) \cup Range(unique_results) \cup Range(cn_releases)
        \cup Range(global_releases) \cup Range(calendar)

-----------------------------------------------------------------------------
(* C1: once the fallback has been decided, adapter 4 has run exactly once if the
   records accumulated from adapters 1-3, duplicates included, are fewer than 5,
   and not at all if they are 5 or more. *)
C1_FallbackIffFewerThanFive ==
    pc \in {"dedupe", "return"} =>
        Cardinality({i \in Indices(invoked) : invoked[i] = 4})
            = (IF Cardinality(From(results, {1, 2, 3})) < Threshold THEN 1 ELSE 0)

(* C1, its case: five records of one normalized title, and adapter 4 skipped. *)
C1_Witness ==
    /\ pc = "dedupe"
    /\ Len(results) = Threshold
    /\ \A i \in Indices(results) :
          results[i].title.k = "str" /\ CleanTitle(results[i].title) = <<"a", "b">>
    /\ invoked = <<1, 2, 3>>

(* C2: fetch_cn_releases never raises. *)
C2_NeverRaises == pc # "raised"

(* C3: after an adapter has failed, no record of that adapter is in the
   accumulated list. *)
C3_FailedAdapterContributesNothing ==
    (excepted /\ invoked # <<>> /\ pc \in {"tap_new", "kaifu", "appstore", "dedupe"}) =>
        From(results, {invoked[Len(invoked)]}) = {}

(* C4: the de-duplicated list is the input restricted to the first record of each
   normalized title, in input order. *)
C4_FirstOfEachNormalizedTitle ==
    pc = "return" => IsRestriction(unique_results, results, FirstOfTitle(results))

(* C5: the merged calendar is a permutation of domestic ++ global, in non-increasing
   order of release_date, records of equal release_date in their order in the
   concatenation. *)
C5_MergeStableDescending ==
    pc = "done" =>
        LET both == cn_releases \o global_releases IN
        /\ Len(calendar) = Len(cn_releases) + Len(global_releases)
        /\ \A r \in Range(both) \cup Range(calendar) :
              Occurrences(calendar, r) = Occurrences(both, r)
        /\ \A i, j \in Indices(calendar) :
              i < j => ~StrLess(calendar[i].release_date, calendar[j].release_date)
        /\ \A i, j \in Indices(both) :
              (i < j /\ both[i].release_date = both[j].release_date) =>
                  \E a, b \in Indices(calendar) :
                      a < b /\ calendar[a] = both[i] /\ calendar[b] = both[j]

(* C5, its case: a domestic and a global record of one release_date, and a third
   record of a later one placed last in the input. *)
C5_Witness ==
    /\ pc = "done"
    /\ Len(cn_releases) = 1 /\ Len(global_releases) = 2
    /\ cn_releases[1].release_date = global_releases[1].release_date
    /\ StrLess(global_releases[1].release_date, global_releases[2].release_date)
    /\ calendar = <<global_releases[2], cn_releases[1], global_releases[1]>>

(* C6: every record an adapter has appended, in whichever list it is, has a
   canonical release_date. *)
C6_ReleaseDateCanonical ==
    \A r \in EveryRecord : IsCanonical(r.release_date)

(* C6, its case: a calendar with records of a TapTap source, of the store feed and
   of the global catalog, the latter two normalized from ISO 8601 strings. *)
C6_Witness ==
    /\ pc = "done"
    /\ From(calendar, {1, 2}) # {}
    /\ From(calendar, {4}) # {}
    /\ \E i \in From(calendar, {0}) : calendar[i].title = PyStr(TitleE)

(* C7: no record of adapters 1, 2 and 4 has a source timestamp older than 30 days
   before the run; the global adapter turns each of the first 30 entries of the
   catalog into a record, whatever its date. *)
C7_RetentionDomesticOnly ==
    /\ \A r \in EveryRecord : r.adapter \in {1, 2, 4} => r.ts >= now - RetentionDays * 86400
    /\ pc \in {"merge", "done"} =>
          /\ Len(global_releases) = Min(Len(games), GlobalLimit)
          /\ \A i \in Indices(global_releases) :
                global_releases[i].id = <<"global_", games[i].id>>

(* C7, its case: a calendar with a domestic record exactly 30 days old and a
   global record years older. *)
C7_Witness ==
    /\ pc = "done"
    /\ \E i \in From(calendar, {1, 2}) : calendar[i].ts = now - RetentionDays * 86400
    /\ \E i \in From(calendar, {0}) : calendar[i].ts < now - 365 * 86400

(* C8: normalize_time returns, never raises; what it returns is canonical, and
   names the parsed instant when the value parses and the current instant when
   it does not. *)
C8_NormalizeTotal ==
    pc = "normalized" =>
        /\ ~ntRet.exc
        /\ IsCanonical(ntRet.s)
        /\ CanonicalInstant(ntRet.s) = (IF ArrowGet(ntArg).ok THEN ArrowGet(ntArg).t ELSE now)

(* C8, its case: a string that does not parse. *)
C8_Witness ==
    /\ pc = "normalized"
    /\ ntArg = PyStr(<<"T", "B", "A">>)
    /\ ntRet = Returned(FormatShanghai(now))

(* C9: in the merged calendar no two records of one track have the same
   normalized title. *)
C9_NoDuplicateWithinTrack ==
    pc = "done" =>
        \A i, j \in Indices(calendar) :
            (i < j /\ calendar[i].region = calendar[j].region) =>
                SpecNormalized(calendar[i].title.s) # SpecNormalized(calendar[j].title.s)

(* C10: the adapters run in the order 1, 2, 3, 4, each appending after the ones
   before it, and of the records that share a normalized title the one kept is
   from the earliest adapter that produced one. *)
C10_EarlierAdapterWins ==
    /\ \A i \in Indices(invoked) : invoked[i] = i
    /\ \A i, j \in Indices(results) : i < j => results[i].adapter <= results[j].adapter
    /\ pc = "return" =>
          \A u \in Range(unique_results) : \A r \in Range(results) :
              SpecNormalized(r.title.s) = SpecNormalized(u.title.s) => u.adapter <= r.adapter

(* C10, its case: adapters 1, 2 and 4 each produced a record of one normalized
   title, and the one kept is adapter 1's. *)
C10_Witness ==
    /\ pc = "return"
    /\ \A a \in {1, 2, 4} :
          \E i \in From(results, {a}) : CleanTitle(results[i].title) = <<"a", "b">>
    /\ Len(unique_results) = 1
    /\ unique_results[1] = results[1]

=============================================================================
